---- MODULE Spec2Model ----
(***************************************************************************)
(* H-2 back wages by employer (notebooks/top-employer-back-wages.ipynb).   *)
(* The notebook's code cells, run top to bottom, as a state machine: one   *)
(* action per cell, one variable per notebook name.  Tables (DataFrames)   *)
(* are sequences of records, one record per row.  Strings that the code    *)
(* orders (employer ids, legal names) are sequences of code points, so     *)
(* that sorting and joining are computed and not assumed; strings that the *)
(* code only tests for equality (act ids, flags, violation descriptions)   *)
(* are TLA+ strings.  Money is counted in cents, as integers: the rounding *)
(* of binary floating point is outside the model.                          *)
(***************************************************************************)
EXTENDS Integers, Sequences, FiniteSets

\* ------------------------------------------------------------------------
\* Bounds of the model
\* ------------------------------------------------------------------------
\* number of distinct CASE_ID values in the loaded cases table
NumCases == 2
\* number of freely chosen violation rows in the amount family of datasets
NumFree == 3

\* ------------------------------------------------------------------------
\* Program constants
\* ------------------------------------------------------------------------
FirstYear == 2010
LastYear == 2014
Threshold == 100000
\* the threshold of the ranking cell, in cents
ThresholdCents == Threshold * 100

non_guestworker_descs ==
  << "17 Preferential treatment given to H-2A workers",
     "02 Unlawful rejection of US workers (2008 & 2010 Rules)",
     "Requirement to Hire U.S. Workers - ER failed to properly hire or rehire U.S. workers",
     "Layoff- ER improperly laid off similarly employed U.S. workers within 120 days of date of need, unless employee refused or was lawfully rejected",
     "Job Opportunity - (U.S. workers) - ER failed to offer U.S. workers bona fide, full-time temp. position due to inequitable qualification requirements",
     "Terms and Working Conditions for U.S. Workers - ER failed to offer terms and working conditions as required" >>

\* the H-2 act ids of the selection cell
H2Acts == << "H2A", "H2B" >>

\* " | ", the delimiter of join_unique_strings
Delim == << 32, 124, 32 >>

\* ------------------------------------------------------------------------
\* Missing values (pandas NaN / None)
\* ------------------------------------------------------------------------
\* a missing string: a sequence no string of code points equals
NaNStr == << 0 - 1 >>
\* a missing amount: amounts are non-negative
NaNNum == 0 - 1

\* ------------------------------------------------------------------------
\* Python strings: comparison, sorted(), str.join()
\* ------------------------------------------------------------------------
RECURSIVE StrLt(_, _)
\* a < b on strings: lexicographic by code point, a proper prefix first
StrLt(a, b) ==
  IF b = << >> THEN FALSE
  ELSE IF a = << >> THEN TRUE
  ELSE IF Head(a) # Head(b) THEN Head(a) < Head(b)
  ELSE StrLt(Tail(a), Tail(b))

RECURSIVE sorted(_)
\* sorted(S) of a set of strings: ascending
sorted(S) ==
  IF S = {} THEN << >>
  ELSE LET m == CHOOSE x \in S : \A y \in S \ {x} : StrLt(x, y)
       IN  << m >> \o sorted(S \ {m})

RECURSIVE str_join(_, _)
\* sep.join(strings)
str_join(sep, strings) ==
  IF strings = << >> THEN << >>
  ELSE IF Len(strings) = 1 THEN strings[1]
  ELSE strings[1] \o sep \o str_join(sep, Tail(strings))

\* series.fillna(v)
fillna(series, v) ==
  [i \in DOMAIN series |-> IF series[i] = NaNStr THEN v ELSE series[i]]

\* set(series)
set(series) == { series[i] : i \in DOMAIN series }

\* series.isin(values), for one element
isin(x, values) == \E i \in DOMAIN values : values[i] = x

\* the strings joined in descending order
join_strings_descending(series) ==
  LET strings == sorted(set(fillna(series, << >>)))
  IN  str_join(Delim, [i \in DOMAIN strings |-> strings[Len(strings) + 1 - i]])

\* the cell that defines join_unique_strings
join_unique_strings(series) ==
  LET strings == sorted(set(fillna(series, << >>)))
  IN  str_join(Delim, strings)

\* ------------------------------------------------------------------------
\* The stages of the pipeline, as functions of tables
\* ------------------------------------------------------------------------
\* cases = _cases[(year >= 2010) & (year <= 2014)]
RestrictCases(t) ==
  SelectSeq(t, LAMBDA r : r.DATE_CONCLUDED_YEAR >= FirstYear
                          /\ r.DATE_CONCLUDED_YEAR <= LastYear)

\* _employers.set_index("CASE_ID")[["employer_id", "ER_LEGAL_NAME"]]
EmployerBasics(t) ==
  [i \in DOMAIN t |-> [CASE_ID |-> t[i].CASE_ID,
                       employer_id |-> t[i].employer_id,
                       ER_LEGAL_NAME |-> t[i].ER_LEGAL_NAME]]

\* the mask without its test of the record type
SelectMaskAnyRecordType(r, c) ==
  /\ isin(r.ACT_ID, H2Acts)
  /\ isin(r.CASE_ID, [i \in DOMAIN c |-> c[i].CASE_ID])
  /\ r.violation_found = TRUE

\* the boolean mask of the selection cell, for one violation row
SelectMask(r, c) ==
  /\ isin(r.ACT_ID, H2Acts)
  /\ isin(r.CASE_ID, [i \in DOMAIN c |-> c[i].CASE_ID])
  /\ r.violation_found = TRUE
  /\ r.ER_EE_VIOL = "E"

\* one row of the left table with the employer columns attached
Annotate(r, id, name) ==
  [CASE_ID |-> r.CASE_ID, ACT_ID |-> r.ACT_ID,
   violation_found |-> r.violation_found, ER_EE_VIOL |-> r.ER_EE_VIOL,
   VIOLATION_DESC |-> r.VIOLATION_DESC, AMT_BW_ASSESSED |-> r.AMT_BW_ASSESSED,
   employer_id |-> id, ER_LEGAL_NAME |-> name]

\* the rows of an inner join: none when no right row has the CASE_ID
JoinRowInner(r, right) ==
  LET m == SelectSeq(right, LAMBDA e : e.CASE_ID = r.CASE_ID)
  IN  [i \in DOMAIN m |-> Annotate(r, m[i].employer_id, m[i].ER_LEGAL_NAME)]

\* the rows a left row yields in left.join(right): one per right row with
\* its CASE_ID, or one with missing employer columns when there is none
JoinRow(r, right) ==
  LET m == SelectSeq(right, LAMBDA e : e.CASE_ID = r.CASE_ID)
  IN  IF m = << >> THEN << Annotate(r, NaNStr, NaNStr) >>
      ELSE [i \in DOMAIN m |-> Annotate(r, m[i].employer_id, m[i].ER_LEGAL_NAME)]

RECURSIVE LeftJoin(_, _)
\* left.set_index("CASE_ID").join(right).reset_index()
LeftJoin(left, right) ==
  IF left = << >> THEN << >>
  ELSE JoinRow(Head(left), right) \o LeftJoin(Tail(left), right)

\* the selection cell
SelectViolations(v, c, eb) ==
  LeftJoin(SelectSeq(v, LAMBDA r : SelectMask(r, c)), eb)

\* the set difference the assertion cell takes the length of
MissingDescs(hev) ==
  set(non_guestworker_descs) \ { hev[i].VIOLATION_DESC : i \in DOMAIN hev }

\* the exclusion with a match that ignores case
ExcludeIgnoringCase(hev) ==
  SelectSeq(hev, LAMBDA r : /\ ~ isin(r.VIOLATION_DESC, non_guestworker_descs)
                            /\ r.VIOLATION_DESC # "17 preferential treatment given to h-2a workers")

\* no exclusion at all
ExcludeNothing(hev) == hev

\* the exclusion cell
ExcludeNonGuestworker(hev) ==
  SelectSeq(hev, LAMBDA r : ~ isin(r.VIOLATION_DESC, non_guestworker_descs))

\* the group keys with the missing value kept as a key
GroupKeysKeepMissing(t) ==
  sorted({ t[i].employer_id : i \in DOMAIN t })

\* the group keys of groupby("employer_id"): the distinct values that are
\* not missing, in ascending order
GroupKeys(t) ==
  sorted({ t[i].employer_id : i \in DOMAIN t } \ {NaNStr})

\* h2_guestworker_violations.groupby("employer_id")
GroupBy(t) ==
  LET keys == GroupKeys(t)
  IN  [k \in DOMAIN keys |->
         [employer_id |-> keys[k],
          rows |-> SelectSeq(t, LAMBDA r : r.employer_id = keys[k])]]

RECURSIVE SumSkipNa(_)
\* the sum of the values of a column that are not missing
SumSkipNa(col) ==
  IF col = << >> THEN 0
  ELSE (IF Head(col) = NaNNum THEN 0 ELSE Head(col)) + SumSkipNa(Tail(col))

\* by_employer["AMT_BW_ASSESSED"].sum() for one group: missing values are
\* skipped; a group with no value at all sums to a missing value (the
\* behaviour of the pandas releases that still have DataFrame.sort)
GroupSum(rows) ==
  LET col == [i \in DOMAIN rows |-> rows[i].AMT_BW_ASSESSED]
  IN  IF \A i \in DOMAIN col : col[i] = NaNNum THEN NaNNum ELSE SumSkipNa(col)

\* by_employer["ER_LEGAL_NAME"].apply(join_unique_strings) for one group
GroupNames(rows) ==
  join_unique_strings([i \in DOMAIN rows |-> rows[i].ER_LEGAL_NAME])

\* the aggregation cell
Aggregate(g) ==
  [k \in DOMAIN g |-> [employer_id |-> g[k].employer_id,
                       h2_backwages |-> GroupSum(g[k].rows),
                       names |-> GroupNames(g[k].rows)]]

\* the comparison as a strict one
AboveThreshold(a) ==
  a.h2_backwages # NaNNum /\ a.h2_backwages > ThresholdCents

\* employer_aggregates["h2_backwages"] >= 100000, for one row (a comparison
\* with a missing value is false)
AtLeastThreshold(a) ==
  a.h2_backwages # NaNNum /\ a.h2_backwages >= ThresholdCents

\* one step of the sort: row a put into a table that is in descending
\* order, after the rows that are not smaller
InsertDesc(a, t) ==
  LET n == Cardinality({ i \in DOMAIN t : t[i].h2_backwages >= a.h2_backwages })
  IN  SubSeq(t, 1, n) \o << a >> \o SubSeq(t, n + 1, Len(t))

\* no sort: the rows stay in the order of the aggregates
Unsorted(t) == t

RECURSIVE SortDesc(_)
\* .sort("h2_backwages", ascending=False): on tables of this size the
\* library's sort is an insertion sort, which keeps equal rows in order
SortDesc(t) ==
  IF t = << >> THEN << >>
  ELSE InsertDesc(t[Len(t)], SortDesc(SubSeq(t, 1, Len(t) - 1)))

\* the ranking cell
Rank(ea) == SortDesc(SelectSeq(ea, AtLeastThreshold))

\* ------------------------------------------------------------------------
\* The datasets the loaders may return
\* ------------------------------------------------------------------------
\* employer ids "E1", "E2", ...
EmployerId(k) == << 69, 48 + k >>

\* "ACME", "Acme Inc." and "Acme, Inc.", in ascending order
LegalNames ==
  << << 65, 67, 77, 69 >>,
     << 65, 99, 109, 101, 32, 73, 110, 99, 46 >>,
     << 65, 99, 109, 101, 44, 32, 73, 110, 99, 46 >> >>

\* a description that is not on the exclusion list, one that differs from
\* an entry of the list only in case, and one that is a substring of it
OtherDesc == "05 Failed to pay proper rate"
LowerDesc == "17 preferential treatment given to h-2a workers"
SubDesc == "17 Preferential treatment"

Years == { FirstYear - 1, FirstYear, LastYear, LastYear + 1 }
Amounts == { NaNNum, 1, ThresholdCents - 1, ThresholdCents }
CaseIds == 1 .. NumCases

Crow(c, y) == [CASE_ID |-> c, DATE_CONCLUDED_YEAR |-> y]
Erow(c, id, name) == [CASE_ID |-> c, employer_id |-> id, ER_LEGAL_NAME |-> name]
Vrow(c, a, f, e, d, m) ==
  [CASE_ID |-> c, ACT_ID |-> a, violation_found |-> f, ER_EE_VIOL |-> e,
   VIOLATION_DESC |-> d, AMT_BW_ASSESSED |-> m]
Dataset(c, e, v) == [cases |-> c, employers |-> e, violations |-> v]

\* every case concluded in the window; one employer record per case
BaseCases ==
  [k \in CaseIds |-> Crow(k, IF k % 2 = 1 THEN FirstYear ELSE LastYear)]
BaseEmployers ==
  [k \in CaseIds |-> Erow(k, EmployerId(k), LegalNames[((k - 1) % 3) + 1])]

\* one selected row per entry of the exclusion list, each with an amount
CoverRow(k) ==
  Vrow(1, "H2A", TRUE, "E", non_guestworker_descs[k], ThresholdCents)
CoverRows == [k \in DOMAIN non_guestworker_descs |-> CoverRow(k)]

\* the cover rows with the row of entry k changed so that the selection
\* cell drops it, or left out
Tweaks == { "none", "absent", "employer-only", "not-found", "other-act", "no-case" }
TweakRow(k, tw) ==
  LET d == non_guestworker_descs[k]
  IN  CASE tw = "none"          -> << CoverRow(k) >>
        [] tw = "absent"        -> << >>
        [] tw = "employer-only" -> << Vrow(1, "H2A", TRUE, "R", d, ThresholdCents) >>
        [] tw = "not-found"     -> << Vrow(1, "H2A", FALSE, "E", d, ThresholdCents) >>
        [] tw = "other-act"     -> << Vrow(1, "FLSA", TRUE, "E", d, ThresholdCents) >>
        [] tw = "no-case"       -> << Vrow(NumCases + 1, "H2A", TRUE, "E", d, ThresholdCents) >>
TweakedCover(k, tw) ==
  SubSeq(CoverRows, 1, k - 1) \o TweakRow(k, tw)
    \o SubSeq(CoverRows, k + 1, Len(CoverRows))

\* the years of the cases vary; one free row varies in every column the
\* selection cell reads, beside an employer-only row of any case
FilterFamily ==
  { Dataset([k \in CaseIds |-> Crow(k, y[k])], BaseEmployers,
            CoverRows \o << Vrow(c, a, f, e, OtherDesc, ThresholdCents),
                            Vrow(p, "H2B", TRUE, "R", OtherDesc, 1) >>) :
      y \in [CaseIds -> Years], c \in 1 .. NumCases + 1,
      a \in {"H2A", "H2B", "FLSA"}, f \in BOOLEAN, e \in {"E", "R"},
      p \in 1 .. NumCases + 1 }

\* one entry of the exclusion list is not among the selected rows; one free
\* row carries any description
ContractFamily ==
  { Dataset(BaseCases, BaseEmployers,
            TweakedCover(k, tw) \o << Vrow(NumCases, "H2B", TRUE, "E", d, ThresholdCents) >>) :
      k \in DOMAIN non_guestworker_descs, tw \in Tweaks,
      d \in {OtherDesc, LowerDesc, SubDesc} \cup set(non_guestworker_descs) }

\* free selected rows with any amount, in the first or the last case
AmountFamily ==
  { Dataset(BaseCases, BaseEmployers,
            CoverRows \o [i \in 1 .. NumFree |->
               Vrow(f[i][1], IF f[i][1] % 2 = 1 THEN "H2A" ELSE "H2B", TRUE, "E",
                    OtherDesc, f[i][2])]) :
      f \in [1 .. NumFree -> {1, NumCases} \X Amounts] }

\* the employer records of one case: none, one, or (for case 1) two
SingleRecords(c) ==
  { << Erow(c, EmployerId(i), n) >> :
      i \in 1 .. 2, n \in set(LegalNames) \cup {NaNStr} }
EmployerChoices(c) ==
  { << >> } \cup SingleRecords(c) \cup
  (IF c = 1
     THEN { << Erow(c, EmployerId(1), LegalNames[3]) >> \o s : s \in SingleRecords(c) }
     ELSE {})

RECURSIVE EmployerTables(_)
EmployerTables(n) ==
  IF n = 0 THEN { << >> }
  ELSE { t \o e : t \in EmployerTables(n - 1), e \in EmployerChoices(n) }

\* the employer records vary; one selected row per case
JoinFamily ==
  { Dataset(BaseCases, e,
            CoverRows \o [k \in CaseIds |-> Vrow(k, "H2A", TRUE, "E", OtherDesc, m[k])]) :
      e \in EmployerTables(NumCases), m \in [CaseIds -> {1, ThresholdCents}] }

Datasets == FilterFamily \cup ContractFamily \cup AmountFamily \cup JoinFamily

\* ------------------------------------------------------------------------
\* The notebook
\* ------------------------------------------------------------------------
VARIABLES
  pc,                          \* the next cell to run, "done" or "failed"
  _cases, cases,
  _employers, employer_basics,
  violations,
  h2_employee_violations,
  h2_guestworker_violations,
  by_employer,
  employer_aggregates,
  top_total_h2_backwages,
  files                        \* the files written, by name

vars ==
  << pc, _cases, cases, _employers, employer_basics, violations,
     h2_employee_violations, h2_guestworker_violations, by_employer,
     employer_aggregates, top_total_h2_backwages, files >>

CsvName == "../output/top-total-h2-backwages-2010-2014.csv"

Init ==
  /\ pc = "load_cases"
  /\ _cases = << >> /\ cases = << >>
  /\ _employers = << >> /\ employer_basics = << >>
  /\ violations = << >>
  /\ h2_employee_violations = << >>
  /\ h2_guestworker_violations = << >>
  /\ by_employer = << >>
  /\ employer_aggregates = << >>
  /\ top_total_h2_backwages = << >>
  /\ files = [n \in {} |-> << >>]

LoadCases ==
  /\ pc = "load_cases"
  /\ \E d \in Datasets :
       /\ _cases' = d.cases
       /\ cases' = RestrictCases(d.cases)
  /\ pc' = "load_employers"
  /\ UNCHANGED << _employers, employer_basics, violations,
                  h2_employee_violations, h2_guestworker_violations,
                  by_employer, employer_aggregates, top_total_h2_backwages, files >>

LoadEmployers ==
  /\ pc = "load_employers"
  /\ \E d \in Datasets :
       /\ d.cases = _cases
       /\ _employers' = d.employers
       /\ employer_basics' = EmployerBasics(d.employers)
  /\ pc' = "load_violations"
  /\ UNCHANGED << _cases, cases, violations,
                  h2_employee_violations, h2_guestworker_violations,
                  by_employer, employer_aggregates, top_total_h2_backwages, files >>

LoadViolations ==
  /\ pc = "load_violations"
  /\ \E d \in Datasets :
       /\ d.cases = _cases
       /\ d.employers = _employers
       /\ violations' = d.violations
  /\ pc' = "select"
  /\ UNCHANGED << _cases, cases, _employers, employer_basics,
                  h2_employee_violations, h2_guestworker_violations,
                  by_employer, employer_aggregates, top_total_h2_backwages, files >>

Select ==
  /\ pc = "select"
  /\ h2_employee_violations' = SelectViolations(violations, cases, employer_basics)
  /\ pc' = "assert"
  /\ UNCHANGED << _cases, cases, _employers, employer_basics, violations,
                  h2_guestworker_violations,
                  by_employer, employer_aggregates, top_total_h2_backwages, files >>

\* the assertion taken over the descriptions of the raw violations
AssertHoldsOnRaw == Cardinality(MissingDescs(violations)) = 0

\* the condition of the assertion cell
AssertHolds == Cardinality(MissingDescs(h2_employee_violations)) = 0

AssertPasses ==
  /\ pc = "assert"
  /\ AssertHolds
  /\ pc' = "exclude"
  /\ UNCHANGED << _cases, cases, _employers, employer_basics, violations,
                  h2_employee_violations, h2_guestworker_violations,
                  by_employer, employer_aggregates, top_total_h2_backwages, files >>

AssertFails ==
  /\ pc = "assert"
  /\ ~ AssertHolds
  /\ pc' = "failed"
  /\ UNCHANGED << _cases, cases, _employers, employer_basics, violations,
                  h2_employee_violations, h2_guestworker_violations,
                  by_employer, employer_aggregates, top_total_h2_backwages, files >>

Exclude ==
  /\ pc = "exclude"
  /\ h2_guestworker_violations' = ExcludeNonGuestworker(h2_employee_violations)
  /\ pc' = "group"
  /\ UNCHANGED << _cases, cases, _employers, employer_basics, violations,
                  h2_employee_violations,
                  by_employer, employer_aggregates, top_total_h2_backwages, files >>

Group ==
  /\ pc = "group"
  /\ by_employer' = GroupBy(h2_guestworker_violations)
  /\ pc' = "aggregate"
  /\ UNCHANGED << _cases, cases, _employers, employer_basics, violations,
                  h2_employee_violations, h2_guestworker_violations,
                  employer_aggregates, top_total_h2_backwages, files >>

Aggregates ==
  /\ pc = "aggregate"
  /\ employer_aggregates' = Aggregate(by_employer)
  /\ pc' = "rank"
  /\ UNCHANGED << _cases, cases, _employers, employer_basics, violations,
                  h2_employee_violations, h2_guestworker_violations,
                  by_employer, top_total_h2_backwages, files >>

Ranks ==
  /\ pc = "rank"
  /\ top_total_h2_backwages' = Rank(employer_aggregates)
  /\ pc' = "save"
  /\ UNCHANGED << _cases, cases, _employers, employer_basics, violations,
                  h2_employee_violations, h2_guestworker_violations,
                  by_employer, employer_aggregates, files >>

SaveCsv ==
  /\ pc = "save"
  /\ files' = [n \in {CsvName} |-> top_total_h2_backwages]
  /\ pc' = "done"
  /\ UNCHANGED << _cases, cases, _employers, employer_basics, violations,
                  h2_employee_violations, h2_guestworker_violations,
                  by_employer, employer_aggregates, top_total_h2_backwages >>

Next ==
  \/ LoadCases \/ LoadEmployers \/ LoadViolations
  \/ Select \/ AssertPasses \/ AssertFails
  \/ Exclude \/ Group \/ Aggregates \/ Ranks \/ SaveCsv

Spec == Init /\ [][Next]_vars

\* ------------------------------------------------------------------------
\* Vocabulary of the properties, stated on the loaded tables
\* ------------------------------------------------------------------------
AfterSelect == { "assert", "failed", "exclude", "group", "aggregate", "rank", "save", "done" }
AfterAssert == { "exclude", "group", "aggregate", "rank", "save", "done" }
AfterExclude == { "group", "aggregate", "rank", "save", "done" }
AfterAggregate == { "rank", "save", "done" }
AfterRank == { "save", "done" }

Rows(t) == { t[i] : i \in DOMAIN t }

RECURSIVE SumOver(_, _)
SumOver(S, f) ==
  IF S = {} THEN 0
  ELSE LET x == CHOOSE y \in S : TRUE IN f[x] + SumOver(S \ {x}, f)

\* the conclusion year of a case is within 2010..2014
ConcludedInWindow(c) ==
  \E j \in DOMAIN _cases :
     /\ _cases[j].CASE_ID = c
     /\ _cases[j].DATE_CONCLUDED_YEAR \in 2010 .. 2014

\* the four conditions of the filter stage, for a violation row
Qualifies(r) ==
  /\ r.ACT_ID \in { "H2A", "H2B" }
  /\ ConcludedInWindow(r.CASE_ID)
  /\ r.violation_found
  /\ r.ER_EE_VIOL = "E"

\* the violation columns of a row of a later stage
ViolationOf(r) ==
  Vrow(r.CASE_ID, r.ACT_ID, r.violation_found, r.ER_EE_VIOL,
       r.VIOLATION_DESC, r.AMT_BW_ASSESSED)

Excluded(r) ==
  \E k \in 1 .. 6 : r.VIOLATION_DESC = non_guestworker_descs[k]

\* the input violations that pass the filter and the exclusion stage
Counted == { i \in DOMAIN violations : Qualifies(violations[i]) /\ ~ Excluded(violations[i]) }

\* the employer records of a case
RecordsOf(c) == { j \in DOMAIN _employers : _employers[j].CASE_ID = c }
RecordsWith(c, id) == { j \in RecordsOf(c) : _employers[j].employer_id = id }

AmountOrZero(r) == IF r.AMT_BW_ASSESSED = NaNNum THEN 0 ELSE r.AMT_BW_ASSESSED

C3_ExclusionExact ==
  pc \in AfterExclude =>
    /\ \A r \in Rows(h2_guestworker_violations) :
         ~ Excluded(r) /\ r \in Rows(h2_employee_violations)
    /\ \A r \in Rows(h2_employee_violations) :
         ~ Excluded(r) => r \in Rows(h2_guestworker_violations)
    /\ Len(h2_guestworker_violations) =
         Cardinality({ i \in DOMAIN h2_employee_violations :
                         ~ Excluded(h2_employee_violations[i]) })

\* rows of the list were removed, and a row that differs from an entry only
\* in case survived
C3_Witness ==
  /\ pc = "group"
  /\ \E r \in Rows(h2_employee_violations) : Excluded(r)
  /\ \E r \in Rows(h2_guestworker_violations) :
       r.VIOLATION_DESC = "17 preferential treatment given to h-2a workers"

\* ------------------------------------------------------------------------
\* C4
\* ------------------------------------------------------------------------
\* the entries of the exclusion list that no row of the filter stage carries
MissingFromSelected ==
  { non_guestworker_descs[k] : k \in 1 .. 6 } \
    { r.VIOLATION_DESC : r \in Rows(h2_employee_violations) }

\* C4: when an entry of the exclusion list is the description of no row of
\* the filter stage, the run fails at the assertion: the exclusion, the
\* aggregation and the ranking have not run and no file is written; when
\* every entry occurs, the run goes on.
C4_AssertionGuardsTheRun ==
  /\ pc = "failed" =>
       /\ MissingFromSelected # {}
       /\ h2_guestworker_violations = << >> /\ by_employer = << >>
       /\ employer_aggregates = << >> /\ top_total_h2_backwages = << >>
       /\ DOMAIN files = {}
  /\ pc \in AfterAssert => MissingFromSelected = {}
  /\ DOMAIN files # {} => pc = "done" /\ MissingFromSelected = {}

\* the run has failed on an entry that the raw violations do carry, on a row
\* the filter stage dropped
C4_Witness ==
  /\ pc = "failed"
  /\ \E d \in MissingFromSelected : \E r \in Rows(violations) : r.VIOLATION_DESC = d

\* ------------------------------------------------------------------------
\* C5
\* ------------------------------------------------------------------------
\* C5: an employer aggregate is in the final output if and only if its total
\* is at least 100000 (100000.00 is in, 99999.99 is out), and the output rows
\* are rows of the aggregates, with their totals and names.
C5_ThresholdInclusive ==
  pc \in AfterRank =>
    /\ \A a \in Rows(employer_aggregates) :
         a \in Rows(top_total_h2_backwages) <=> a.h2_backwages >= 100000 * 100
    /\ Rows(top_total_h2_backwages) \subseteq Rows(employer_aggregates)
    /\ Len(top_total_h2_backwages) = Cardinality(Rows(top_total_h2_backwages))

\* one employer at 100000.00 is in the output, one at 99999.99 is not
C5_Witness ==
  /\ pc = "save"
  /\ \E a \in Rows(top_total_h2_backwages) : a.h2_backwages = 10000000
  /\ \E a \in Rows(employer_aggregates) :
       a.h2_backwages = 9999999 /\ a \notin Rows(top_total_h2_backwages)

\* ------------------------------------------------------------------------
\* C6
\* ------------------------------------------------------------------------
\* C6: the rows of the final output are in non-increasing order of
\* h2_backwages.
C6_OutputDescending ==
  pc \in AfterRank =>
    \A i, j \in DOMAIN top_total_h2_backwages :
      i < j => top_total_h2_backwages[i].h2_backwages
                 >= top_total_h2_backwages[j].h2_backwages

\* two output rows, the larger total first although its employer id, and so
\* its place in the aggregates, is the later one
C6_Witness ==
  /\ pc = "save"
  /\ Len(top_total_h2_backwages) >= 2
  /\ top_total_h2_backwages[1].h2_backwages > top_total_h2_backwages[2].h2_backwages
  /\ \E i, j \in DOMAIN employer_aggregates :
       /\ i < j
       /\ employer_aggregates[j] = top_total_h2_backwages[1]
       /\ employer_aggregates[i] = top_total_h2_backwages[2]

\* ------------------------------------------------------------------------
\* C7
\* ------------------------------------------------------------------------
\* a is before b in lexicographic order
LexLess(a, b) ==
  \E k \in 1 .. Len(b) :
     /\ k <= Len(a) + 1
     /\ \A i \in 1 .. k - 1 : a[i] = b[i]
     /\ (k = Len(a) + 1 \/ a[k] < b[k])

RECURSIVE NamesText(_)
\* the strings of a list with " | " between each two
NamesText(L) ==
  IF Len(L) = 0 THEN << >>
  ELSE IF Len(L) = 1 THEN L[1]
  ELSE NamesText(SubSeq(L, 1, Len(L) - 1)) \o << 32, 124, 32 >> \o L[Len(L)]

\* the legal names of the surviving rows of an employer, a missing name as ""
NameSet(id) ==
  { IF r.ER_LEGAL_NAME = NaNStr THEN << >> ELSE r.ER_LEGAL_NAME :
      r \in { q \in Rows(h2_guestworker_violations) : q.employer_id = id } }

\* C7: for each employer identifier, names is the list of the distinct legal
\* names of its surviving rows (a missing name as the empty string), each
\* once, in ascending lexicographic order, joined with " | ": a function of
\* the set of the names, not of the order or number of the rows.
C7_NamesSortedDistinct ==
  pc \in AfterAggregate =>
    /\ \A r \in Rows(h2_guestworker_violations) :
         r.employer_id # NaNStr =>
           \E a \in Rows(employer_aggregates) : a.employer_id = r.employer_id
    /\ \A a \in Rows(employer_aggregates) :
         LET S == NameSet(a.employer_id)
         IN  \E L \in [1 .. Cardinality(S) -> S] :
               /\ \A i, j \in DOMAIN L : i < j => LexLess(L[i], L[j])
               /\ a.names = NamesText(L)

\* an employer with three rows: a name, a missing name and the first name
\* again, summarised as " | Acme, Inc."
C7_Witness ==
  /\ pc = "rank"
  /\ \E k \in DOMAIN by_employer :
       /\ Len(by_employer[k].rows) = 3
       /\ by_employer[k].rows[1].ER_LEGAL_NAME = LegalNames[3]
       /\ by_employer[k].rows[2].ER_LEGAL_NAME = NaNStr
       /\ by_employer[k].rows[3].ER_LEGAL_NAME = LegalNames[3]
       /\ employer_aggregates[k].names = << 32, 124, 32 >> \o LegalNames[3]

\* ------------------------------------------------------------------------
\* C8
\* ------------------------------------------------------------------------
\* the counted violations whose case has no employer record
JoinMisses == { i \in Counted : RecordsOf(violations[i].CASE_ID) = {} }

\* the violations table without the rows of JoinMisses
WithoutJoinMisses ==
  SelectSeq(violations,
            LAMBDA r : ~ (Qualifies(r) /\ ~ Excluded(r) /\ RecordsOf(r.CASE_ID) = {}))

\* C8: a qualifying violation whose case has no employer record is in no
\* employer aggregate: no aggregate has a missing employer identifier, and
\* the aggregates are those of the same input without that violation.
C8_JoinMissInNoAggregate ==
  pc \in AfterAggregate =>
    /\ \A a \in Rows(employer_aggregates) : a.employer_id # NaNStr
    /\ \A k \in DOMAIN by_employer : by_employer[k].employer_id # NaNStr
    /\ employer_aggregates =
         Aggregate(GroupBy(ExcludeNonGuestworker(
           SelectViolations(WithoutJoinMisses, cases, employer_basics))))

\* the run went past the aggregation with a join miss of 100000.00 among the
\* surviving rows and with another employer aggregated
C8_Witness ==
  /\ pc = "rank"
  /\ \E i \in JoinMisses : violations[i].AMT_BW_ASSESSED = 10000000
  /\ \E r \in Rows(h2_guestworker_violations) : r.employer_id = NaNStr
  /\ employer_aggregates # << >>

\* ------------------------------------------------------------------------
\* C1
\* ------------------------------------------------------------------------
\* the counted violations whose case has an employer record with this id
CountedFor(id) ==
  { i \in Counted : RecordsWith(violations[i].CASE_ID, id) # {} }

Qualifying == { i \in DOMAIN violations : Qualifies(violations[i]) }

\* C10 as stated: the result of the filter stage has one row per qualifying
\* violation, whatever the number of employer records of its case.
C10_OneRowPerViolation ==
  pc \in AfterSelect => Len(h2_employee_violations) = Cardinality(Qualifying)

\* C10, amended: a qualifying violation has one row in the result of the
\* filter stage when its case has no employer record or one, and one row per
\* employer record when its case has several; no qualifying violation is
\* dropped.
C10_OneRowPerEmployerRecord ==
  pc \in AfterSelect =>
    Len(h2_employee_violations) =
      SumOver(Qualifying,
              [i \in DOMAIN violations |->
                 IF RecordsOf(violations[i].CASE_ID) = {} THEN 1
                 ELSE Cardinality(RecordsOf(violations[i].CASE_ID))])

\* qualifying violations of a case without employer record and of a case
\* with two
C10_Witness ==
  /\ pc = "assert"
  /\ \E i \in Qualifying : RecordsOf(violations[i].CASE_ID) = {}
  /\ \E i \in Qualifying : Cardinality(RecordsOf(violations[i].CASE_ID)) = 2

====
